---------------------------- MODULE Spec2Model ----------------------------
(***************************************************************************)
(* Model of the ESP32 firmware Mini_Project/arduino/power_factor_monitor   *)
(* .ino: the sampling window of measurePhase(), the metric computation,    *)
(* and the measurement cycle of loop().                                    *)
(*                                                                         *)
(* Numbers.  The firmware computes in float; the model computes in         *)
(* integers, each quantity in a unit chosen so that the firmware's         *)
(* arithmetic is exact wherever it is exact over the reals :               *)
(*   v        uV = ADC_VREF / (2 * ADC_MAX)  volt                          *)
(*   current  uI = uV / ACS712_SENSITIVITY   ampere                        *)
(*   sumVSq, sumISq, sumVI   uV^2, uI^2, uV*uI                             *)
(*   voltageRms              uV * VOLTAGE_CALIBRATION / RmsScale           *)
(*   currentRms              uI / RmsScale                                 *)
(*   realPower, apparentPower, reactivePower, and the totals               *)
(*                           uP = uV * uI * VOLTAGE_CALIBRATION  watt      *)
(*   powerFactor, overallPF  1 / PfScale                                   *)
(* A result that is not a whole number of its unit (a square root, a       *)
(* quotient) is rounded toward zero, which stands for float rounding.      *)
(*                                                                         *)
(* Time.  micros() is a wrapping counter of MicrosBits bits; the firmware's*)
(* 32 bits and its 100 ms window are scaled down together so that a window *)
(* can start at every counter value, the ones next to the wrap included.   *)
(***************************************************************************)
EXTENDS Integers, Sequences, FiniteSets, TLC

\* ------------------------------------------------------------ bounds
\* Firmware: 200 samples per AC cycle, 5 cycles, 20000 us per cycle.
SAMPLES_PER_CYCLE == 2
NUM_CYCLES == 2
CYCLE_PERIOD_US == 8
\* Width of the micros() counter (firmware: 32).
MicrosBits == 5
\* Most microseconds that pass between two consecutive micros() reads.
MaxStep == 2
\* Measurement cycles a run of loop() is followed for.
MaxCycles == 2
\* Width of the millis() counter (firmware: 32) and the inter-cycle
\* interval in its ticks (firmware: 2000 ms).
MillisBits == 3
SEND_INTERVAL == 2
\* Most milliseconds that pass between two consecutive millis() reads of
\* loop() : the time a cycle, a publish or a reconnection blocks for.
MaxBlock == 9

\* --------------------------------------------------- program constants
NUM_PHASES == 3
ADC_MAX == 4095
\* Resolution of the rms fields and of the power factor fields.
RmsScale == 100
PfScale == 1000
\* 0.05 A in uI / RmsScale : 0.05 * 0.066 * 8190 / 3.3 * 100.
NoiseFloor == 819
\* 0.85 and 0.01 in 1 / PfScale.
PF_THRESHOLD == 850
PfEpsilon == 10

VOLTAGE_PINS == <<34, 32, 25>>
CURRENT_PINS == <<35, 33, 26>>

MicrosModulus == 2 ^ MicrosBits

MillisModulus == 2 ^ MillisBits

\* ------------------------------------------------------------ helpers
Abs(x) == IF x < 0 THEN -x ELSE x

Min(a, b) == IF a < b THEN a ELSE b

Max(a, b) == IF a > b THEN a ELSE b

\* The quotient rounded toward zero (b > 0).
TruncDiv(a, b) == IF a >= 0 THEN a \div b ELSE -((-a) \div b)

RECURSIVE SqrtSearch(_, _, _)
SqrtSearch(n, lo, hi) ==
  IF hi - lo <= 1 THEN lo
  ELSE LET mid == (lo + hi) \div 2
       IN IF mid * mid <= n THEN SqrtSearch(n, mid, hi)
                            ELSE SqrtSearch(n, lo, mid)

\* sqrt() rounded toward zero (n >= 0, below 46341^2).
Sqrt(n) == SqrtSearch(n, 0, 46341)

\* The Arduino macro constrain(amt, low, high).
constrain(amt, low, high) ==
  IF amt < low THEN low ELSE IF amt > high THEN high ELSE amt

\* ------------------------------------------------------ measurePhase
totalSamples == SAMPLES_PER_CYCLE * NUM_CYCLES

\* (unsigned long)(i * sampleInterval), sampleInterval being
\* (CYCLE_PERIOD_US * NUM_CYCLES) / totalSamples.
SampleOffset(k) == (k * (CYCLE_PERIOD_US * NUM_CYCLES)) \div totalSamples

\* targetTime = sampleStartTime + (unsigned long)(i * sampleInterval), an
\* unsigned long sum.
TargetTime(start, k) == (start + SampleOffset(k)) % MicrosModulus

\* v = (rawV / ADC_MAX) * ADC_VREF - ADC_VREF / 2
VoltageOf(rawV) == 2 * rawV - ADC_MAX

\* current = ((rawI / ADC_MAX) * ADC_VREF - ACS712_OFFSET) / ACS712_SENSITIVITY
CurrentOf(rawI) == 2 * rawI - ADC_MAX

ZeroPhaseData ==
  [voltageRms |-> 0, currentRms |-> 0, powerFactor |-> 0,
   realPower |-> 0, apparentPower |-> 0, reactivePower |-> 0]

\* sqrt(sum / totalSamples), in 1 / RmsScale of the samples' unit.
RmsOf(sum) == Sqrt((sum * (RmsScale * RmsScale)) \div totalSamples)

\* RealPowerOf without the division by totalSamples.
RealPowerOfSum(sVI) == sVI

\* realPower = (sumVI / totalSamples) * VOLTAGE_CALIBRATION
RealPowerOf(sVI) == TruncDiv(sVI, totalSamples)

\* apparentPower = voltageRms * currentRms
ApparentPowerOf(vRms, iRms) == (vRms * iRms) \div (RmsScale * RmsScale)

\* PowerFactorOf without the abs().
PowerFactorSigned(P, S) ==
  constrain(TruncDiv(P * PfScale, S), -PfScale, PfScale)

\* powerFactor = abs(constrain(realPower / apparentPower, -1.0, 1.0))
PowerFactorOf(P, S) ==
  Abs(constrain(TruncDiv(P * PfScale, S), -PfScale, PfScale))

\* sqrt(max(0.0f, apparent * apparent - real * real))
ReactivePowerOf(P, S) == Sqrt(Max(0, S * S - P * P))

\* The noise-floor test with the floor at 0.
AboveZero(iRms) == iRms > 0

\* The noise-floor test : result.currentRms > 0.05
AboveNoiseFloor(iRms) == iRms > NoiseFloor

\* PhaseDataOf with realPower assigned ahead of the noise-floor test.
PhaseDataRealPowerFirst(sVSq, sISq, sVI) ==
  LET vRms == RmsOf(sVSq)
      iRms == RmsOf(sISq)
      P == RealPowerOf(sVI)
      S == ApparentPowerOf(vRms, iRms)
  IN IF AboveNoiseFloor(iRms)
       THEN [voltageRms |-> vRms, currentRms |-> iRms,
             powerFactor |-> IF S > 0 THEN PowerFactorOf(P, S) ELSE 0,
             realPower |-> P, apparentPower |-> S,
             reactivePower |-> ReactivePowerOf(P, S)]
       ELSE [ZeroPhaseData EXCEPT !.voltageRms = vRms, !.currentRms = iRms,
                                  !.realPower = P]

\* The tail of measurePhase : the PhaseData built from the three sums.
PhaseDataOf(sVSq, sISq, sVI) ==
  LET vRms == RmsOf(sVSq)
      iRms == RmsOf(sISq)
      P == RealPowerOf(sVI)
      S == ApparentPowerOf(vRms, iRms)
  IN IF AboveNoiseFloor(iRms)
       THEN [voltageRms |-> vRms, currentRms |-> iRms,
             powerFactor |-> IF S > 0 THEN PowerFactorOf(P, S) ELSE 0,
             realPower |-> P, apparentPower |-> S,
             reactivePower |-> ReactivePowerOf(P, S)]
       ELSE [ZeroPhaseData EXCEPT !.voltageRms = vRms, !.currentRms = iRms]

VARIABLES
  pc,              \* where the single thread of control is
  p,               \* loop()'s phase index i
  i,               \* measurePhase()'s sample index i
  micros,          \* the value micros() returned last
  sampleStartTime,
  sumVSq, sumISq, sumVI,
  result,          \* measurePhase()'s PhaseData
  adcLog,          \* this window's analogRead calls, <<slot, pin>> each
  elapsed,         \* microseconds since sampleStartTime was taken, saturating
  acqElapsed,      \* elapsed at the latest acquisition of this window, or -1
  phases,          \* loop()'s PhaseData phases[NUM_PHASES]
  totalRealPower, totalApparentPower,
  anyLowPF,
  overallPF, totalReactivePower,
  millis,          \* the value millis() returned last
  lastSendTime,
  wifiConnected,   \* WiFi.status() == WL_CONNECTED
  ledBlinks,       \* LED flashes of the cycle's alert
  posted,          \* the arguments of the cycle's sendToServer call, or none
  httpCode,        \* what http.POST returned last
  stageLog,        \* the steps of loop() taken in this cycle, in order
  cycles,          \* measurement cycles started
  sinceMarker,     \* milliseconds passed since lastSendTime was set, saturating
  startGap         \* sinceMarker when the latest cycle started, or -1

measureVars ==
  <<i, micros, sampleStartTime, sumVSq, sumISq, sumVI, result, adcLog,
    elapsed, acqElapsed>>

\* What measurePhase never touches : loop()'s variables and the globals.
loopVars ==
  <<p, phases, totalRealPower, totalApparentPower, anyLowPF, overallPF,
    totalReactivePower, millis, lastSendTime, wifiConnected, ledBlinks,
    posted, httpCode, cycles, sinceMarker, startGap>>

vars == <<pc, measureVars, loopVars, stageLog>>

\* The longest time the model tells apart : the span of one window.
WindowSpan == CYCLE_PERIOD_US * NUM_CYCLES

\* The longest time since the marker the model tells apart : two periods of
\* the millis() counter.
MaxGap == 2 * MillisModulus

\* measurePhase, lines 126-133 : the locals, and the start time.
MeasureBegin ==
  /\ pc = "call"
  /\ result' = ZeroPhaseData
  /\ sumVSq' = 0 /\ sumISq' = 0 /\ sumVI' = 0
  /\ i' = 0
  /\ sampleStartTime' = micros
  /\ adcLog' = <<>>
  /\ elapsed' = 0
  /\ acqElapsed' = -1
  /\ stageLog' = Append(stageLog, <<"begin", p>>)
  /\ pc' = "wait"
  /\ UNCHANGED <<micros, loopVars>>

\* One evaluation of  while (micros() < targetTime)  : the clock read is d
\* microseconds after the read before it.
PollStep(d) ==
  /\ pc = "wait"
  /\ micros' = (micros + d) % MicrosModulus
  /\ elapsed' = Min(elapsed + d, WindowSpan)
  /\ pc' = IF micros' < TargetTime(sampleStartTime, i) THEN "wait" ELSE "read"
  /\ UNCHANGED <<i, sampleStartTime, sumVSq, sumISq, sumVI, result, adcLog,
                 acqElapsed, loopVars, stageLog>>

Poll(Steps) == \E d \in Steps : PollStep(d)

\* ReadPair with the loop test  i < totalSamples - 1.
ReadPairLastSkipped(rawV, rawI) ==
  /\ pc = "read"
  /\ adcLog' = adcLog \o << <<i, VOLTAGE_PINS[p + 1]>>,
                            <<i, CURRENT_PINS[p + 1]>> >>
  /\ acqElapsed' = elapsed
  /\ sumVSq' = sumVSq + VoltageOf(rawV) * VoltageOf(rawV)
  /\ sumISq' = sumISq + CurrentOf(rawI) * CurrentOf(rawI)
  /\ sumVI' = sumVI + VoltageOf(rawV) * CurrentOf(rawI)
  /\ i' = i + 1
  /\ pc' = IF i + 1 < totalSamples - 1 THEN "wait" ELSE "compute"
  /\ UNCHANGED <<micros, sampleStartTime, result, elapsed, loopVars,
                 stageLog>>

\* The body of the sample loop, lines 141-159, and its i++ and test.
ReadPair(rawV, rawI) ==
  /\ pc = "read"
  /\ adcLog' = adcLog \o << <<i, VOLTAGE_PINS[p + 1]>>,
                            <<i, CURRENT_PINS[p + 1]>> >>
  /\ acqElapsed' = elapsed
  /\ sumVSq' = sumVSq + VoltageOf(rawV) * VoltageOf(rawV)
  /\ sumISq' = sumISq + CurrentOf(rawI) * CurrentOf(rawI)
  /\ sumVI' = sumVI + VoltageOf(rawV) * CurrentOf(rawI)
  /\ i' = i + 1
  /\ pc' = IF i + 1 < totalSamples THEN "wait" ELSE "compute"
  /\ UNCHANGED <<micros, sampleStartTime, result, elapsed, loopVars,
                 stageLog>>

ReadSample(Pairs) == \E s \in Pairs : ReadPair(s[1], s[2])

\* Lines 162-183.
ComputeMetrics ==
  /\ pc = "compute"
  /\ result' = PhaseDataOf(sumVSq, sumISq, sumVI)
  /\ stageLog' = Append(stageLog, <<"measured", p>>)
  /\ pc' = "ret"
  /\ UNCHANGED <<i, micros, sampleStartTime, sumVSq, sumISq, sumVI, adcLog,
                 elapsed, acqElapsed, loopVars>>

\* ------------------------------------------------------------- loop
\* A slot of phases[] that has not been assigned in this call of loop().
Unassigned == [voltageRms |-> -1, currentRms |-> -1, powerFactor |-> -1,
               realPower |-> -1, apparentPower |-> -1, reactivePower |-> -1]

NoPhases == [q \in 0 .. NUM_PHASES - 1 |-> Unassigned]

\* What the stack may hold where a local of loop() lived in an earlier call.
StaleNumbers == {0, 1}

\* The alert test without its lower limit.
IsBelowThreshold(pf) == pf < PF_THRESHOLD

\* The alert test of lines 218 and 226.
IsLowPF(pf) == pf > PfEpsilon /\ pf < PF_THRESHOLD

\* Lines 191-196 : the link is down; WiFi.begin, delay, return.
LoopReconnect ==
  /\ pc = "loop"
  /\ ~wifiConnected
  /\ wifiConnected' \in BOOLEAN
  /\ UNCHANGED <<pc, measureVars, p, phases, totalRealPower,
                 totalApparentPower, anyLowPF, overallPF, totalReactivePower,
                 millis, lastSendTime, ledBlinks, posted, httpCode, stageLog,
                 cycles, sinceMarker, startGap>>

\* now - lastSendTime, an unsigned long difference.
SinceLastSend(now) == (now - lastSendTime) % MillisModulus

\* Lines 198-200 : millis() is read d ticks after the read before it, and
\* the interval has not passed : return.
GateClosed(d) ==
  /\ pc = "loop"
  /\ wifiConnected
  /\ millis' = (millis + d) % MillisModulus
  /\ SinceLastSend(millis') < SEND_INTERVAL
  /\ sinceMarker' = Min(sinceMarker + d, MaxGap)
  /\ UNCHANGED <<pc, measureVars, p, phases, totalRealPower,
                 totalApparentPower, anyLowPF, overallPF, totalReactivePower,
                 lastSendTime, wifiConnected, ledBlinks, posted, httpCode,
                 stageLog, cycles, startGap>>

\* CycleBegin with the marker advanced by one interval,
\* lastSendTime += SEND_INTERVAL .
CycleBeginCatchUp(d) ==
  /\ pc = "loop"
  /\ wifiConnected
  /\ cycles < MaxCycles
  /\ millis' = (millis + d) % MillisModulus
  /\ ~(SinceLastSend(millis') < SEND_INTERVAL)
  /\ lastSendTime' = (lastSendTime + SEND_INTERVAL) % MillisModulus
  /\ sinceMarker' = 0
  /\ startGap' = Min(sinceMarker + d, MaxGap)
  /\ phases' = NoPhases
  /\ totalRealPower' = 0
  /\ totalApparentPower' = 0
  /\ anyLowPF' = FALSE
  /\ p' = 0
  /\ ledBlinks' = 0
  /\ posted' = <<>>
  /\ stageLog' = <<>>
  /\ cycles' = cycles + 1
  /\ pc' = "call"
  /\ UNCHANGED <<measureVars, overallPF, totalReactivePower, wifiConnected,
                 httpCode>>

\* Lines 198-212 : the interval has passed; the marker is set, the cycle's
\* locals are initialised and the phase loop is entered.
CycleBegin(d) ==
  /\ pc = "loop"
  /\ wifiConnected
  /\ cycles < MaxCycles
  /\ millis' = (millis + d) % MillisModulus
  /\ ~(SinceLastSend(millis') < SEND_INTERVAL)
  /\ lastSendTime' = millis'
  /\ sinceMarker' = 0
  /\ startGap' = Min(sinceMarker + d, MaxGap)
  /\ phases' = NoPhases
  /\ totalRealPower' = 0
  /\ totalApparentPower' = 0
  /\ anyLowPF' = FALSE
  /\ p' = 0
  /\ ledBlinks' = 0
  /\ posted' = <<>>
  /\ stageLog' = <<>>
  /\ cycles' = cycles + 1
  /\ pc' = "call"
  /\ UNCHANGED <<measureVars, overallPF, totalReactivePower, wifiConnected,
                 httpCode>>

LoopEntry(MsSteps) == \E d \in MsSteps : GateClosed(d) \/ CycleBegin(d)

\* Accumulate with = in place of += .
AccumulateAssign ==
  /\ pc = "ret"
  /\ phases' = [phases EXCEPT ![p] = result]
  /\ totalRealPower' = result.realPower
  /\ totalApparentPower' = result.apparentPower
  /\ stageLog' = Append(stageLog, <<"aggregated", p>>)
  /\ pc' = "evaluate"
  /\ UNCHANGED <<measureVars, p, anyLowPF, overallPF, totalReactivePower,
                 millis, lastSendTime, wifiConnected, ledBlinks, posted,
                 httpCode, cycles, sinceMarker, startGap>>

\* Lines 213-216 : measurePhase has returned; its result is stored and
\* added to the totals.
Accumulate ==
  /\ pc = "ret"
  /\ phases' = [phases EXCEPT ![p] = result]
  /\ totalRealPower' = totalRealPower + result.realPower
  /\ totalApparentPower' = totalApparentPower + result.apparentPower
  /\ stageLog' = Append(stageLog, <<"aggregated", p>>)
  /\ pc' = "evaluate"
  /\ UNCHANGED <<measureVars, p, anyLowPF, overallPF, totalReactivePower,
                 millis, lastSendTime, wifiConnected, ledBlinks, posted,
                 httpCode, cycles, sinceMarker, startGap>>

\* Evaluate with the loop test  i < NUM_PHASES - 1.
EvaluateLastSkipped ==
  /\ pc = "evaluate"
  /\ anyLowPF' = (anyLowPF \/ IsLowPF(phases[p].powerFactor))
  /\ stageLog' = Append(stageLog, <<"evaluated", p>>)
  /\ p' = p + 1
  /\ pc' = IF p + 1 < NUM_PHASES - 1 THEN "call" ELSE "overall"
  /\ UNCHANGED <<measureVars, phases, totalRealPower, totalApparentPower,
                 overallPF, totalReactivePower, millis, lastSendTime,
                 wifiConnected, ledBlinks, posted, httpCode, cycles,
                 sinceMarker, startGap>>

\* Lines 218-230 : the alert test of this phase, and the loop's i++ and test.
Evaluate ==
  /\ pc = "evaluate"
  /\ anyLowPF' = (anyLowPF \/ IsLowPF(phases[p].powerFactor))
  /\ stageLog' = Append(stageLog, <<"evaluated", p>>)
  /\ p' = p + 1
  /\ pc' = IF p + 1 < NUM_PHASES THEN "call" ELSE "overall"
  /\ UNCHANGED <<measureVars, phases, totalRealPower, totalApparentPower,
                 overallPF, totalReactivePower, millis, lastSendTime,
                 wifiConnected, ledBlinks, posted, httpCode, cycles,
                 sinceMarker, startGap>>

\* overallPF = constrain(abs(totalReal / totalApparent), 0.0f, 1.0f)
OverallPFOf(P, S) == constrain(Abs(TruncDiv(P * PfScale, S)), 0, PfScale)

\* Lines 233-241.
Overall ==
  /\ pc = "overall"
  /\ overallPF' = IF totalApparentPower > 0
                    THEN OverallPFOf(totalRealPower, totalApparentPower)
                    ELSE 0
  /\ totalReactivePower' = IF totalApparentPower > 0
                             THEN ReactivePowerOf(totalRealPower,
                                                  totalApparentPower)
                             ELSE 0
  /\ stageLog' = Append(stageLog, <<"overall", NUM_PHASES>>)
  /\ pc' = "led"
  /\ UNCHANGED <<measureVars, p, phases, totalRealPower, totalApparentPower,
                 anyLowPF, millis, lastSendTime, wifiConnected, ledBlinks,
                 posted, httpCode, cycles, sinceMarker, startGap>>

\* Lines 249-256 : three flashes when a phase was low.
LedAlert ==
  /\ pc = "led"
  /\ ledBlinks' = IF anyLowPF THEN 3 ELSE 0
  /\ stageLog' = Append(stageLog, <<"alert", NUM_PHASES>>)
  /\ pc' = "send"
  /\ UNCHANGED <<measureVars, p, phases, totalRealPower, totalApparentPower,
                 anyLowPF, overallPF, totalReactivePower, millis,
                 lastSendTime, wifiConnected, posted, httpCode, cycles,
                 sinceMarker, startGap>>

\* Lines 259-260 and sendToServer : the snapshot is posted, the POST answers
\* with code, and loop() returns; the link may have dropped meanwhile.  With
\* the return the locals of loop() and of measurePhase() are gone : the next
\* call finds stale memory where it has not initialised them.
SendToServer(code) ==
  /\ pc = "send"
  /\ posted' = <<[phases |-> phases, overallPF |-> overallPF,
                  totalReal |-> totalRealPower,
                  totalApparent |-> totalApparentPower,
                  totalReactive |-> totalReactivePower]>>
  /\ httpCode' = code
  /\ stageLog' = Append(stageLog, <<"sent", NUM_PHASES>>)
  /\ wifiConnected' \in BOOLEAN
  /\ pc' = "loop"
  /\ phases' = NoPhases
  /\ totalRealPower' \in StaleNumbers
  /\ totalApparentPower' \in StaleNumbers
  /\ anyLowPF' \in BOOLEAN
  /\ overallPF' = 0 /\ totalReactivePower' = 0
  /\ p' = 0 /\ i' = 0
  /\ sampleStartTime' = 0
  /\ sumVSq' = 0 /\ sumISq' = 0 /\ sumVI' = 0
  /\ result' = ZeroPhaseData
  /\ UNCHANGED <<micros, adcLog, elapsed, acqElapsed, millis, lastSendTime,
                 ledBlinks, cycles, sinceMarker, startGap>>

Send == \E code \in {200, -1} : SendToServer(code)

\* Line 266 : sendToServer is declared void. httpCode is a local of it that
\* is printed on the serial port (lines 312-317); nothing is handed back to
\* loop().
SendToServerReturn(code) == "void"

\* ------------------------------------------------------ specifications
\* The raw codes of a (voltage, current) reading with v = a and current = c.
Reading(a, c) == <<(a + ADC_MAX) \div 2, (c + ADC_MAX) \div 2>>

\* The readings the ADC returns in Spec on the pins of phase R, Y and B :
\* each phase has a reading with next to no current; beside it R has one in
\* phase, Y one in opposite phase and B one with a large current.
CyclePairs(q) ==
  CASE q = 0 -> {Reading(11, 11), Reading(1, 1)}
    [] q = 1 -> {Reading(-11, 11), Reading(11, 1)}
    [] q = 2 -> {Reading(11, 51), Reading(11, -1)}
    [] OTHER -> {}

\* The state after setup().
Init ==
  /\ pc = "loop"
  /\ p = 0 /\ i = 0
  /\ micros = 0
  /\ sampleStartTime = 0
  /\ sumVSq = 0 /\ sumISq = 0 /\ sumVI = 0
  /\ result = ZeroPhaseData
  /\ adcLog = <<>>
  /\ elapsed = 0
  /\ acqElapsed = -1
  /\ phases = NoPhases
  /\ totalRealPower = 0 /\ totalApparentPower = 0
  /\ anyLowPF = FALSE
  /\ overallPF = 0 /\ totalReactivePower = 0
  /\ millis = 0
  /\ lastSendTime = 0
  /\ wifiConnected \in BOOLEAN
  /\ ledBlinks = 0
  /\ posted = <<>>
  /\ httpCode = 0
  /\ stageLog = <<>>
  /\ cycles = 0
  /\ sinceMarker = 0
  /\ startGap = -1

Next ==
  \/ LoopReconnect
  \/ LoopEntry({1})
  \/ MeasureBegin
  \/ Poll({1})
  \/ ReadSample(CyclePairs(p))
  \/ ComputeMetrics
  \/ Accumulate
  \/ Evaluate
  \/ Overall
  \/ LedAlert
  \/ Send

Spec == Init /\ [][Next]_vars

\* measurePhase on its own : one window on the pins of any phase, started at
\* any value of the micros() counter, the time between two reads of the
\* counter varying from read to read.
TimingPairs == {Reading(101, 101)}

InitTiming ==
  /\ pc = "call"
  /\ p \in 0 .. NUM_PHASES - 1
  /\ i = 0
  /\ micros \in 0 .. MicrosModulus - 1
  /\ sampleStartTime = 0
  /\ sumVSq = 0 /\ sumISq = 0 /\ sumVI = 0
  /\ result = ZeroPhaseData
  /\ adcLog = <<>>
  /\ elapsed = 0
  /\ acqElapsed = -1
  /\ phases = NoPhases
  /\ totalRealPower = 0 /\ totalApparentPower = 0
  /\ anyLowPF = FALSE
  /\ overallPF = 0 /\ totalReactivePower = 0
  /\ millis = 0
  /\ lastSendTime = 0
  /\ wifiConnected = TRUE
  /\ ledBlinks = 0
  /\ posted = <<>>
  /\ httpCode = 0
  /\ stageLog = <<>>
  /\ cycles = 1
  /\ sinceMarker = 0
  /\ startGap = -1

NextTiming ==
  \/ MeasureBegin
  \/ Poll(1 .. MaxStep)
  \/ ReadSample(TimingPairs)
  \/ ComputeMetrics

SpecTiming == InitTiming /\ [][NextTiming]_vars

\* One window, phase R, from any counter value.
InitTimingFair == InitTiming /\ p = 0

\* The thread keeps running : a step that can be taken is taken.
SpecTimingFair ==
  InitTimingFair /\ [][NextTiming]_vars /\ WF_vars(NextTiming)

\* measurePhase on its own, on a range of sample sequences, the clock
\* advancing one microsecond from read to read.
PhasePairs ==
  {Reading(9, 9), Reading(11, 11), Reading(-11, 11), Reading(11, -1),
   Reading(1, 1), Reading(11, 51)}

InitPhase == InitTiming /\ micros = 0

NextPhase ==
  \/ MeasureBegin
  \/ Poll({1})
  \/ ReadSample(PhasePairs)
  \/ ComputeMetrics

SpecPhase == InitPhase /\ [][NextPhase]_vars

\* loop() with the millis() counter read any time up to MaxBlock after the
\* read before it : a cycle, its publish or a reconnection may block for
\* longer than several intervals, and for longer than the counter's period.
NextGate ==
  \/ LoopReconnect
  \/ LoopEntry(0 .. MaxBlock)
  \/ MeasureBegin
  \/ Poll({1})
  \/ ReadSample(TimingPairs)
  \/ ComputeMetrics
  \/ Accumulate
  \/ Evaluate
  \/ Overall
  \/ LedAlert
  \/ Send

SpecGate == Init /\ [][NextGate]_vars

\* ------------------------------------------------------------ claims
\* The analogRead calls a window makes when it services its first n slots in
\* order, the voltage pin and then the current pin once in each.
ExpectedReads(n) ==
  [k \in 1 .. 2 * n |->
     <<(k - 1) \div 2,
       IF k % 2 = 1 THEN VOLTAGE_PINS[p + 1] ELSE CURRENT_PINS[p + 1]>>]

\* C1 : in every window the slots 0 .. totalSamples - 1 are serviced in
\* increasing order, each once, the voltage pin and the current pin each read
\* once in each slot, and the metrics are computed only after the last slot.
C1_SlotsServicedOnce ==
  /\ i \in 0 .. totalSamples
  /\ adcLog = ExpectedReads(i)
  /\ pc \in {"wait", "read"} => i < totalSamples
  /\ pc \in {"compute", "ret"} => i = totalSamples
  /\ pc # "ret" => result = ZeroPhaseData

C1_Witness ==
  /\ pc = "ret"
  /\ adcLog = ExpectedReads(totalSamples)
  /\ result # ZeroPhaseData

\* C2 : no sample is acquired before SampleOffset(its index) microseconds
\* have passed since the start time was taken, wherever the counter stood
\* then.
C2_NeverEarly == acqElapsed >= 0 => acqElapsed >= SampleOffset(i - 1)

\* C3 : a window that has started leaves every busy-wait, services all its
\* slots and returns.
C3_WindowCompletes == <>(pc = "ret")

\* C4 : a window whose currentRms is at or below the noise floor returns
\* realPower, apparentPower, reactivePower and powerFactor all 0.
C4_NoiseFloorZeroes ==
  (pc = "ret" /\ result.currentRms <= NoiseFloor) =>
    /\ result.realPower = 0
    /\ result.apparentPower = 0
    /\ result.reactivePower = 0
    /\ result.powerFactor = 0

C4_Witness ==
  /\ pc = "ret"
  /\ result.currentRms <= NoiseFloor
  /\ result.currentRms > 0
  /\ sumVI # 0

\* Whether a power factor lies in the closed interval from 0 to 1.
InUnitInterval(pf) == 0 <= pf /\ pf <= PfScale

\* C5 : every power factor a cycle produces, of a phase or overall, lies in
\* the closed interval from 0 to 1.
C5_PowerFactorsInRange ==
  /\ InUnitInterval(result.powerFactor)
  /\ \A q \in 0 .. NUM_PHASES - 1 :
       phases[q] # Unassigned => InUnitInterval(phases[q].powerFactor)
  /\ InUnitInterval(overallPF)
  /\ \A k \in 1 .. Len(posted) :
       /\ InUnitInterval(posted[k].overallPF)
       /\ \A q \in 0 .. NUM_PHASES - 1 :
            InUnitInterval(posted[k].phases[q].powerFactor)

\* A cycle with a phase of negative real power, a phase whose real power
\* exceeds its apparent power, and a phase of zero apparent power.
C5_Witness ==
  /\ pc = "led"
  /\ \E q \in 0 .. NUM_PHASES - 1 :
       phases[q].realPower < 0 /\ phases[q].powerFactor > 0
  /\ \E q \in 0 .. NUM_PHASES - 1 :
       phases[q].realPower > phases[q].apparentPower
  /\ \E q \in 0 .. NUM_PHASES - 1 : phases[q].apparentPower = 0
  /\ overallPF > 0

\* A degenerate window : zero apparent power, or current at or below the
\* noise floor.
Degenerate(r) == r.apparentPower = 0 \/ r.currentRms <= NoiseFloor

\* C6, as stated : a degenerate window returns the all-zero PhaseData.
C6_DegenerateAllZero ==
  (pc = "ret" /\ Degenerate(result)) => result = ZeroPhaseData

\* C6, amended : a degenerate window returns realPower, apparentPower,
\* reactivePower and powerFactor 0, and voltageRms and currentRms as measured.
C6_DegeneratePowersZero ==
  (pc = "ret" /\ Degenerate(result)) =>
    /\ result.realPower = 0
    /\ result.apparentPower = 0
    /\ result.reactivePower = 0
    /\ result.powerFactor = 0
    /\ result.voltageRms = Sqrt((sumVSq * RmsScale * RmsScale) \div totalSamples)
    /\ result.currentRms = Sqrt((sumISq * RmsScale * RmsScale) \div totalSamples)

C6_Witness ==
  /\ pc = "ret"
  /\ Degenerate(result)
  /\ result.voltageRms > 0
  /\ result.currentRms > 0
  /\ sumVI # 0

\* The phases of the cycle whose power factor is above 0.01 and below 0.85.
LowPhases(ph) ==
  {q \in 0 .. NUM_PHASES - 1 :
     ph[q].powerFactor > PfEpsilon /\ ph[q].powerFactor < PF_THRESHOLD}

\* C7 : the alert of a cycle is raised exactly when one of the cycle's three
\* power factors is above 0.01 and below 0.85, whatever earlier cycles did.
C7_AlertIffLowPhase ==
  /\ pc \in {"overall", "led", "send"} => (anyLowPF <=> LowPhases(phases) # {})
  /\ pc = "send" => (ledBlinks > 0 <=> LowPhases(phases) # {})
  /\ ~IsLowPF(0) /\ IsLowPF(PfScale \div 2) /\ ~IsLowPF((9 * PfScale) \div 10)
  /\ ~IsLowPF(PfEpsilon) /\ ~IsLowPF(PF_THRESHOLD)

\* A second cycle without alert, whose phases are all at 0 or at 0.85 and
\* above.
C7_Witness ==
  /\ pc = "send"
  /\ cycles = 2
  /\ ~anyLowPF
  /\ \E q \in 0 .. NUM_PHASES - 1 : phases[q].powerFactor = 0
  /\ \E q \in 0 .. NUM_PHASES - 1 : phases[q].powerFactor >= PF_THRESHOLD

RECURSIVE SumOver(_, _, _)
\* The sum of field f of ph[0] .. ph[n - 1].
SumOver(ph, f, n) == IF n = 0 THEN 0 ELSE SumOver(ph, f, n - 1) + ph[n - 1][f]

\* C8 : the totals are the sums of the three phases' realPower and
\* apparentPower, started from 0 in the cycle; overallPF is
\* clamp(|totalReal / totalApparent|, 0, 1) when totalApparent > 0 and 0
\* otherwise; totalReactivePower is sqrt(max(0, totalApparent^2 -
\* totalReal^2)).
C8_Aggregation ==
  /\ pc \in {"call", "wait", "read", "compute", "ret"} =>
       /\ totalRealPower = SumOver(phases, "realPower", p)
       /\ totalApparentPower = SumOver(phases, "apparentPower", p)
  /\ pc \in {"overall", "led", "send"} =>
       /\ totalRealPower = SumOver(phases, "realPower", NUM_PHASES)
       /\ totalApparentPower = SumOver(phases, "apparentPower", NUM_PHASES)
  /\ pc \in {"led", "send"} =>
       /\ overallPF =
            IF totalApparentPower > 0
              THEN Min(PfScale, Max(0,
                     Abs(TruncDiv(totalRealPower * PfScale,
                                  totalApparentPower))))
              ELSE 0
       /\ totalReactivePower =
            Sqrt(Max(0, totalApparentPower * totalApparentPower
                          - totalRealPower * totalRealPower))

\* A second cycle whose total reactive power is not the sum of the phases'.
C8_Witness ==
  /\ pc = "send"
  /\ cycles = 2
  /\ totalApparentPower > 0
  /\ totalRealPower # 0
  /\ totalReactivePower # SumOver(phases, "reactivePower", NUM_PHASES)

\* The amount by which reactivePower^2 + realPower^2 and apparentPower^2
\* differ.
PythagorasGap(r) ==
  Abs(r.reactivePower * r.reactivePower + r.realPower * r.realPower
        - r.apparentPower * r.apparentPower)

\* What the gap is at most when each of the three powers is off by one unit
\* of its resolution : (x + 1)^2 - x^2 = 2 x + 1 for each.
RoundingTolerance(r) ==
  2 * (r.reactivePower + Abs(r.realPower) + r.apparentPower) + 3

\* C9 : a window with apparentPower > 0 returns reactivePower^2 +
\* realPower^2 = apparentPower^2 within rounding tolerance, and the sums
\* behind realPower and apparentPower satisfy sumVI^2 <= sumVSq * sumISq, so
\* that max(0, ...) cuts off no more than rounding error.
C9_Pythagoras ==
  /\ (pc = "ret" /\ result.apparentPower > 0) =>
       PythagorasGap(result) <= RoundingTolerance(result)
  /\ sumVI * sumVI <= sumVSq * sumISq

C9_Witness ==
  /\ pc = "ret"
  /\ result.apparentPower > 0
  /\ result.reactivePower > 0
  /\ result.realPower < 0
  /\ sumVI * sumVI < sumVSq * sumISq

\* The steps of one cycle, in order.
CycleStages ==
  << <<"begin", 0>>, <<"measured", 0>>, <<"aggregated", 0>>, <<"evaluated", 0>>,
     <<"begin", 1>>, <<"measured", 1>>, <<"aggregated", 1>>, <<"evaluated", 1>>,
     <<"begin", 2>>, <<"measured", 2>>, <<"aggregated", 2>>, <<"evaluated", 2>>,
     <<"overall", 3>>, <<"alert", 3>>, <<"sent", 3>> >>

\* The phases whose measurement is among the first k steps of the cycle.
MeasuredBefore(k) ==
  {q \in 0 .. NUM_PHASES - 1 :
     \E j \in 1 .. k - 1 : stageLog[j] = <<"measured", q>>}

\* C10, as stated : no stage of a cycle starts before the stage before it
\* has completed for all three phases : the results are aggregated, and the
\* alert is evaluated, only after R, Y and B have all been measured.
C10_StagesAfterAllPhases ==
  \A k \in 1 .. Len(stageLog) :
    stageLog[k][1] \in {"aggregated", "evaluated", "overall", "alert", "sent"}
      => MeasuredBefore(k) = 0 .. NUM_PHASES - 1

\* C10, amended : the steps of a cycle are taken in the order of CycleStages,
\* each once, and the snapshot is posted by the last of them.
C10_StageOrder ==
  /\ Len(stageLog) <= Len(CycleStages)
  /\ stageLog = SubSeq(CycleStages, 1, Len(stageLog))
  /\ posted # <<>> => stageLog = CycleStages
  /\ Len(posted) <= 1
  /\ pc = "loop" => stageLog \in {<<>>, CycleStages}

C10_Witness ==
  /\ pc = "loop"
  /\ cycles = 2
  /\ stageLog = CycleStages
  /\ Len(posted) = 1

\* C11 : a measurement cycle starts only when at least SEND_INTERVAL
\* milliseconds have passed since lastSendTime was last set, however the
\* millis() counter has wrapped in between; the start sets the marker to the
\* time of the start, so that after a block of several intervals one cycle
\* starts and the next waits a whole interval again.
C11_GateKeepsInterval ==
  /\ startGap # -1 => startGap >= SEND_INTERVAL
  /\ pc # "loop" => lastSendTime = millis /\ sinceMarker = 0
  /\ sinceMarker < MaxGap =>
       (lastSendTime + sinceMarker) % MillisModulus = millis

\* The second cycle has started after a block of two intervals or more,
\* the counter having wrapped since the marker was set.
C11_Witness ==
  /\ pc = "call"
  /\ cycles = 2
  /\ startGap >= 2 * SEND_INTERVAL
  /\ startGap < MillisModulus
  /\ startGap > millis

\* The status value of a publish whose POST answered code.
StatusOf(code) == IF code > 0 THEN "success" ELSE "failure"

\* C12 : a cycle that has completed its measurements has handed exactly one
\* snapshot to sendToServer, and sendToServer has reported to loop(), as a
\* status value, whether the POST succeeded or failed; after a failed POST
\* the snapshot is not handed over again and nothing is queued.
C12_PublishReportsStatus ==
  (pc = "loop" /\ stageLog = CycleStages) =>
    /\ Len(posted) = 1
    /\ SendToServerReturn(httpCode) = StatusOf(httpCode)

=============================================================================
